---------------------------- MODULE Spec2Model ----------------------------
(***************************************************************************)
(* A model of the gold-price application's server routes:                  *)
(*   - the spot route, scrape variant   (src/src/app/api/spot/route.ts)    *)
(*   - the spot route, tabular variant  (src/unnamed/part_001, 1-198)      *)
(*   - the history route                (src/unnamed/part_001, 200-359)    *)
(* and of its page, the client of both routes (src/src/app/page.tsx).      *)
(*                                                                         *)
(* JavaScript values are records [t, n, d]: t is the kind of the value     *)
(* ("num" a finite number n/d in lowest terms, "inf", "ninf", "nan",       *)
(* "null", "undefined", "str" a non-numeric string, "strnum" a string that *)
(* spells the number n/d, "strempty" the empty string).  Finite numbers    *)
(* are exact rationals: the model does not round as IEEE doubles do.       *)
(* Texts that the code matches with regular expressions are sequences of   *)
(* one-character strings.                                                  *)
(***************************************************************************)
EXTENDS Integers, Sequences, FiniteSets, TLC

VARIABLES
    domVariant,     \* SpecDomestic: the strategy that was run
    domPayload,     \* SpecDomestic: the upstream payload it was given
    domResult,      \* SpecDomestic: the settled promise of fetchDomesticGoldSnapshot
    spotVariant,    \* SpecSpot: the domestic strategy of the deployed spot route
    spotPc,         \* SpecSpot: "idle", "awaiting" (in Promise.all) or "done"
    domesticGold,   \* SpecSpot: the promise of fetchDomesticGoldSnapshot()
    goldChart,      \* SpecSpot: the promise of fetchChart("GC=F", ...)
    fxChart,        \* SpecSpot: the promise of fetchChart("KRW=X", ...)
    spotAll,        \* SpecSpot: the promise of Promise.all([...])
    spotLocals,     \* SpecSpot: GET's locals goldPriceUsdPerOunce and usdKrw
    spotResponse,   \* SpecSpot: the response GET returned
    alignPc,        \* SpecAlign: "parse", "merge" (in the for loop) or "done"
    rawGold,        \* SpecAlign: the metal chart given to parseSeries
    rawFx,          \* SpecAlign: the FX chart given to parseSeries
    goldSeries,     \* SpecAlign: parseSeries(goldChart)
    fxSeries,       \* SpecAlign: parseSeries(fxChart)
    goldNext,       \* SpecAlign: how many metal points the for loop has taken
    fxIndex,        \* SpecAlign: mergeGoldAndFx's cursor into fxSeries, from 0
    points,         \* SpecAlign: mergeGoldAndFx's points so far, then its result
    histPc,         \* SpecHistory: "idle", "awaiting" or "done"
    rangeParam,     \* SpecHistory: searchParams.get("range")
    rangeKey,       \* SpecHistory: GET's rangeKey
    histConfig,     \* SpecHistory: the { range, interval } GET fetches with
    histGold,       \* SpecHistory: the promise of fetchChart("GC=F", ...)
    histFx,         \* SpecHistory: the promise of fetchChart("KRW=X", ...)
    histAll,        \* SpecHistory: the promise of Promise.all([...])
    histResponse,   \* SpecHistory: the response GET returned
    trendPc,        \* SpecTrend: "idle" or "rendered"
    trendPoints,    \* SpecTrend: the points prop of TrendChart
    domesticIndex,  \* SpecTrend: TrendChart's domesticIndex
    globalIndex,    \* SpecTrend: TrendChart's globalIndex
    spotCalls,      \* SpecLive: the calls of fetchSpot, each with its position
    prevSpotRef,    \* SpecLive: prevSpotRef.current
    spot,           \* SpecLive: the spot state of Home
    spotError,      \* SpecLive: the spotError state ("" for null)
    spotLoading,    \* SpecLive: the spotLoading state
    domesticFlashKey, \* SpecLive: the domesticFlashKey state
    globalFlashKey, \* SpecLive: the globalFlashKey state
    range,          \* SpecPast: the range state of Home
    historyCalls,   \* SpecPast: the calls of fetchHistory, in the order made
    history,        \* SpecPast: the history state
    historyLoading, \* SpecPast: the historyLoading state
    historyError    \* SpecPast: the historyError state ("" for null)

domVars == <<domVariant, domPayload, domResult>>
spotVars == <<spotVariant, spotPc, domesticGold, goldChart, fxChart, spotAll,
              spotLocals, spotResponse>>
alignVars == <<alignPc, rawGold, rawFx, goldSeries, fxSeries, goldNext, fxIndex, points>>
histVars == <<histPc, rangeParam, rangeKey, histConfig, histGold, histFx, histAll,
              histResponse>>
trendVars == <<trendPc, trendPoints, domesticIndex, globalIndex>>
liveVars == <<spotCalls, prevSpotRef, spot, spotError, spotLoading, domesticFlashKey,
              globalFlashKey>>
pastVars == <<range, historyCalls, history, historyLoading, historyError>>
clientVars == <<trendVars, liveVars, pastVars>>
vars == <<domVars, spotVars, alignVars, histVars, clientVars>>

(***************************************************************************)
(* JavaScript numbers                                                      *)
(***************************************************************************)
Abs(x) == IF x < 0 THEN -x ELSE x

RECURSIVE GCD(_, _)
GCD(a, b) == IF b = 0 THEN a ELSE GCD(b, a % b)

\* the finite number n/d (d # 0), in lowest terms with a positive denominator
Rat(n, d) ==
    LET g == GCD(Abs(n), Abs(d))
        s == IF d < 0 THEN -1 ELSE 1
    IN  [t |-> "num", n |-> s * (n \div g), d |-> Abs(d) \div g]

Num(n) == [t |-> "num", n |-> n, d |-> 1]
PosInf == [t |-> "inf", n |-> 0, d |-> 1]
NegInf == [t |-> "ninf", n |-> 0, d |-> 1]
NaN == [t |-> "nan", n |-> 0, d |-> 1]
Null == [t |-> "null", n |-> 0, d |-> 1]
Undefined == [t |-> "undefined", n |-> 0, d |-> 1]
StrEmpty == [t |-> "strempty", n |-> 0, d |-> 1]
StrBad == [t |-> "str", n |-> 0, d |-> 1]
StrNum(n) == [t |-> "strnum", n |-> n, d |-> 1]

\* typeof v === "number"
IsNumber(v) == v.t \in {"num", "inf", "ninf", "nan"}

\* typeof v === "number" && Number.isFinite(v)
IsFiniteNumber(v) == v.t = "num"

\* v is null or undefined: the left operand that makes ?? take its right one
IsNullish(v) == v.t \in {"null", "undefined"}

\* a ?? b
Coalesce(a, b) == IF IsNullish(a) THEN b ELSE a

\* Number(v)
ToNumber(v) ==
    CASE IsNumber(v) -> v
      [] v.t = "strnum" -> Rat(v.n, v.d)
      [] v.t \in {"strempty", "null"} -> Num(0)
      [] OTHER -> NaN

\* comparisons and arithmetic of finite numbers
NumLt(a, b) == a.n * b.d < b.n * a.d
LCM(a, b) == (a \div GCD(a, b)) * b
NumAdd(a, b) ==
    LET l == LCM(a.d, b.d) IN Rat(a.n * (l \div a.d) + b.n * (l \div b.d), l)
NumSub(a, b) ==
    LET l == LCM(a.d, b.d) IN Rat(a.n * (l \div a.d) - b.n * (l \div b.d), l)
NumMul(a, b) == Rat(a.n * b.n, a.d * b.d)

\* a / b for finite a and b; a zero divisor gives an infinity or NaN
NumDiv(a, b) ==
    IF b.n # 0 THEN Rat(a.n * b.d, a.d * b.n)
    ELSE IF a.n = 0 THEN NaN
    ELSE IF a.n > 0 THEN PosInf ELSE NegInf

\* a > b, a <= b with b finite and a any number (NaN compares false)
JsGt(a, b) ==
    CASE a.t = "num" -> NumLt(b, a)
      [] a.t = "inf" -> TRUE
      [] OTHER -> FALSE

JsLe(a, b) ==
    CASE a.t = "num" -> ~NumLt(b, a)
      [] a.t = "ninf" -> TRUE
      [] OTHER -> FALSE

(***************************************************************************)
(* Texts                                                                   *)
(***************************************************************************)
Digits == <<"0", "1", "2", "3", "4", "5", "6", "7", "8", "9">>
DigitSet == {Digits[i] : i \in 1..10}
IsDigit(c) == c \in DigitSet
DigitValue(c) == (CHOOSE i \in 1..10 : Digits[i] = c) - 1
IsSpace(c) == c \in {" ", "\t", "\n"}

\* a string | undefined: present is FALSE for undefined
Str(chars) == [present |-> TRUE, chars |-> chars]
NoStr == [present |-> FALSE, chars |-> <<>>]

\* the length of the run of digits of s that starts at position i
RECURSIVE DigitRun(_, _)
DigitRun(s, i) ==
    IF i <= Len(s) /\ IsDigit(s[i]) THEN 1 + DigitRun(s, i + 1) ELSE 0

\* the number spelled by the digits s[i..j]
RECURSIVE DigitsValue(_, _, _)
DigitsValue(s, i, j) ==
    IF j < i THEN 0 ELSE 10 * DigitsValue(s, i, j - 1) + DigitValue(s[j])

RECURSIVE Pow10(_)
Pow10(k) == IF k = 0 THEN 1 ELSE 10 * Pow10(k - 1)

\* Number.parseFloat of a text made of digits, ".", "-": the longest prefix
\* that spells a decimal literal, NaN when there is none
parseFloat(s) ==
    LET neg == Len(s) >= 1 /\ s[1] = "-"
        b == IF neg THEN 2 ELSE 1
        ni == DigitRun(s, b)
        dot == b + ni <= Len(s) /\ s[b + ni] = "."
        nf == IF dot THEN DigitRun(s, b + ni + 1) ELSE 0
        whole == DigitsValue(s, b, b + ni - 1)
        frac == DigitsValue(s, b + ni + 1, b + ni + nf)
        mag == Rat(whole * Pow10(nf) + frac, Pow10(nf))
    IN  IF ni = 0 /\ nf = 0 THEN NaN
        ELSE IF neg THEN NumSub(Num(0), mag) ELSE mag


DigitsAt(s, i, k) == i + k - 1 <= Len(s) /\ \A j \in i..(i + k - 1) : IsDigit(s[j])
CharAt(s, i, set) == i <= Len(s) /\ s[i] \in set

\* the length of the run of white space of s that starts at position i
RECURSIVE SpaceRun(_, _)
SpaceRun(s, i) ==
    IF i <= Len(s) /\ IsSpace(s[i]) THEN 1 + SpaceRun(s, i + 1) ELSE 0

\* n written with w digits
RECURSIVE Pad(_, _)
Pad(n, w) == IF w = 0 THEN <<>> ELSE Pad(n \div 10, w - 1) \o <<Digits[(n % 10) + 1]>>

KstOffset == <<"+", "0", "9", ":", "0", "0">>

(***************************************************************************)
(* toIsoFromKst, scrape variant (route.ts 48-60): the first match of       *)
(* (\d{4})[.-](\d{2})[.-](\d{2})\s+(\d{2}):(\d{2})(?::(\d{2}))?            *)
(***************************************************************************)
\* where the time part starts when the date part and the white space match at i
KstTimeStart(s, i) == i + 10 + SpaceRun(s, i + 10)

KstMatchAt(s, i, seps) ==
    /\ DigitsAt(s, i, 4) /\ CharAt(s, i + 4, seps)
    /\ DigitsAt(s, i + 5, 2) /\ CharAt(s, i + 7, seps)
    /\ DigitsAt(s, i + 8, 2) /\ SpaceRun(s, i + 10) >= 1
    /\ DigitsAt(s, KstTimeStart(s, i), 2)
    /\ CharAt(s, KstTimeStart(s, i) + 2, {":"})
    /\ DigitsAt(s, KstTimeStart(s, i) + 3, 2)

KstHasSeconds(s, i) ==
    /\ CharAt(s, KstTimeStart(s, i) + 5, {":"})
    /\ DigitsAt(s, KstTimeStart(s, i) + 6, 2)

\* `${match[1]}-${match[2]}-${match[3]}T${match[4]}:${match[5]}:${second}+09:00`
KstFormat(s, i, second) ==
    LET j == KstTimeStart(s, i)
    IN  SubSeq(s, i, i + 3) \o <<"-">> \o SubSeq(s, i + 5, i + 6) \o <<"-">>
        \o SubSeq(s, i + 8, i + 9) \o <<"T">> \o SubSeq(s, j, j + 1) \o <<":">>
        \o SubSeq(s, j + 3, j + 4) \o <<":">> \o second \o KstOffset

toIsoFromKstScrape(value) ==
    IF ~value.present \/ value.chars = <<>> THEN NoStr
    ELSE LET s == value.chars
             hits == {i \in 1..Len(s) : KstMatchAt(s, i, {".", "-"})}
         IN  IF hits = {} THEN NoStr
             ELSE LET i == CHOOSE h \in hits : \A g \in hits : h <= g
                      j == KstTimeStart(s, i)
                      second == IF KstHasSeconds(s, i) THEN SubSeq(s, j + 6, j + 7)
                                ELSE <<"0", "0">>
                  IN  Str(KstFormat(s, i, second))

(***************************************************************************)
(* toIsoFromKst, tabular variant (part_001 54-70)                          *)
(***************************************************************************)
\* /^\d{4}-\d{2}-\d{2}T\d{2}:\d{2}:\d{2}[+-]\d{2}:\d{2}$/
IsoMatch(s) ==
    /\ Len(s) = 25
    /\ DigitsAt(s, 1, 4) /\ s[5] = "-" /\ DigitsAt(s, 6, 2) /\ s[8] = "-"
    /\ DigitsAt(s, 9, 2) /\ s[11] = "T" /\ DigitsAt(s, 12, 2) /\ s[14] = ":"
    /\ DigitsAt(s, 15, 2) /\ s[17] = ":" /\ DigitsAt(s, 18, 2)
    /\ s[20] \in {"+", "-"} /\ DigitsAt(s, 21, 2) /\ s[23] = ":" /\ DigitsAt(s, 24, 2)

toIsoFromKstTabular(value) ==
    IF ~value.present \/ value.chars = <<>> THEN NoStr
    ELSE LET s == value.chars
             hits == {i \in 1..Len(s) : KstMatchAt(s, i, {"-"}) /\ KstHasSeconds(s, i)}
         IN  IF IsoMatch(s) THEN value
             ELSE IF hits = {} THEN NoStr
             ELSE LET i == CHOOSE h \in hits : \A g \in hits : h <= g
                      j == KstTimeStart(s, i)
                  IN  Str(KstFormat(s, i, SubSeq(s, j + 6, j + 7)))

(***************************************************************************)
(* new Date(seconds * 1000).toISOString() for seconds >= 0                 *)
(***************************************************************************)
toISOString(seconds) ==
    LET days == seconds \div 86400
        rem == seconds % 86400
        z == days + 719468
        era == z \div 146097
        doe == z - era * 146097
        yoe == (doe - doe \div 1460 + doe \div 36524 - doe \div 146096) \div 365
        doy == doe - (365 * yoe + yoe \div 4 - yoe \div 100)
        mp == (5 * doy + 2) \div 153
        day == doy - (153 * mp + 2) \div 5 + 1
        month == IF mp < 10 THEN mp + 3 ELSE mp - 9
        year == yoe + era * 400 + (IF month <= 2 THEN 1 ELSE 0)
    IN  Pad(year, 4) \o <<"-">> \o Pad(month, 2) \o <<"-">> \o Pad(day, 2) \o <<"T">>
        \o Pad(rem \div 3600, 2) \o <<":">> \o Pad((rem % 3600) \div 60, 2) \o <<":">>
        \o Pad(rem % 60, 2) \o <<".", "0", "0", "0", "Z">>

(***************************************************************************)
(* The domestic snapshot and the promise that carries it                   *)
(***************************************************************************)
Snapshot(price, pct, prev, at) ==
    [domesticKrwPerGram |-> price, changePercent |-> pct,
     previousDomesticKrwPerGram |-> prev, updatedAt |-> at]

NoSnapshot == Snapshot(Undefined, Undefined, Undefined, NoStr)

FulfilledSnapshot(v) == [st |-> "fulfilled", value |-> v, error |-> ""]
RejectedSnapshot(msg) == [st |-> "rejected", value |-> NoSnapshot, error |-> msg]
PendingSnapshot == [st |-> "pending", value |-> NoSnapshot, error |-> ""]

\* the raw price above which the feed is taken to quote a kilogram
KgThreshold == 1000000

\* needsKgToGram with the boundary price taken as a kilogram price
needsKgToGramGe(rawPrice) == ~NumLt(rawPrice, Num(KgThreshold))
\* const needsKgToGram = rawPrice > 1_000_000
needsKgToGram(rawPrice) == JsGt(rawPrice, Num(KgThreshold))

\* needsKgToGram ? v / 1000 : v
KgToGram(rawPrice, v) == IF needsKgToGram(rawPrice) THEN NumDiv(v, Num(1000)) ELSE v

\* ((price - previous) / previous) * 100, 0 for a zero previous
PercentOfPrevious(price, previous) ==
    IF previous # Num(0)
    THEN NumMul(NumDiv(NumSub(price, previous), previous), Num(100))
    ELSE Num(0)

(***************************************************************************)
(* fetchDomesticGoldSnapshot, scrape variant (route.ts 97-149).  The       *)
(* payload holds what the regular expressions of lines 111-141 capture:    *)
(* todayEm, the tag-stripped text of the first <em> of the no_today block  *)
(* (undefined without one); percentText, the tag-stripped text of the      *)
(* second <em> of the no_exday block ("" without one); isDown and isUp,    *)
(* whether the block holds class="ico down" and class="ico up"; dateText,  *)
(* the trimmed text of the date span (undefined without one).              *)
(***************************************************************************)
\* .replace(/[^0-9.,-]/g, "")
KeepPriceChars(s) == SelectSeq(s, LAMBDA c : c \in DigitSet \cup {".", ",", "-"})

\* parseNumber: commas removed, parseFloat, null unless finite
parseNumber(input) ==
    LET value == parseFloat(SelectSeq(input, LAMBDA c : c # ","))
    IN  IF IsFiniteNumber(value) THEN value ELSE Null

\* percentText.match(/([0-9]+(?:\.[0-9]+)?)/) and Number.parseFloat of the
\* match; 0 without a match
rawPercentOf(percentText) ==
    LET s == percentText
        starts == {i \in 1..Len(s) : IsDigit(s[i])}
    IN  IF starts = {} THEN Num(0)
        ELSE LET i == CHOOSE h \in starts : \A g \in starts : h <= g
                 ni == DigitRun(s, i)
                 nf == IF CharAt(s, i + ni, {"."}) THEN DigitRun(s, i + ni + 1) ELSE 0
                 last == IF nf > 0 THEN i + ni + nf ELSE i + ni - 1
             IN  parseFloat(SubSeq(s, i, last))

\* the sign with the up marker tested before the down marker
signOfUpFirst(isDown, isUp) == IF isUp THEN 1 ELSE IF isDown THEN -1 ELSE 1
\* const sign = isDown ? -1 : isUp ? 1 : 1
signOf(isDown, isUp) == IF isDown THEN -1 ELSE IF isUp THEN 1 ELSE 1

\* Number.isFinite(rawPercent) ? sign * rawPercent : 0
changePercentOf(rawPercent, sign) ==
    IF IsFiniteNumber(rawPercent) THEN NumMul(Num(sign), rawPercent) ELSE Num(0)

\* previousFromPercent without the guard of lines 137-139
previousFromPercentUnguarded(price, changePercent) ==
    IF changePercent = Num(-100) THEN price
    ELSE NumDiv(price, NumAdd(Num(1), NumDiv(changePercent, Num(100))))
\* lines 135-139: the previous price derived from the price and the percent
previousFromPercent(price, changePercent) ==
    LET previous == IF changePercent = Num(-100) THEN price
                    ELSE NumDiv(price, NumAdd(Num(1), NumDiv(changePercent, Num(100))))
    IN  IF ~IsFiniteNumber(previous) \/ JsLe(previous, Num(0)) THEN price ELSE previous

fetchDomesticGoldSnapshotScrape(p) ==
    IF ~p.ok THEN RejectedSnapshot("Naver gold request failed")
    ELSE
    LET todayText == IF p.todayEm.present /\ p.todayEm.chars # <<>>
                     THEN KeepPriceChars(p.todayEm.chars) ELSE <<>>
        rawPrice == parseNumber(todayText)
    IN  IF rawPrice = Null
        THEN RejectedSnapshot("Failed to parse domestic gold reference price")
        ELSE
        LET domesticKrwPerGram == KgToGram(rawPrice, rawPrice)
            changePercent == changePercentOf(rawPercentOf(p.percentText),
                                             signOf(p.isDown, p.isUp))
        IN  FulfilledSnapshot(Snapshot(domesticKrwPerGram, changePercent,
                previousFromPercent(domesticKrwPerGram, changePercent),
                toIsoFromKstScrape(p.dateText)))

(***************************************************************************)
(* fetchDomesticGoldSnapshot, tabular variant (part_001 97-144).  The      *)
(* payload is the parsed JSON body: header and rows are lists or           *)
(* undefined, a row is a sequence of cells, updated a string or undefined. *)
(***************************************************************************)
List(items) == [present |-> TRUE, items |-> items]
NoList == [present |-> FALSE, items |-> <<>>]

\* data.header ?? [], data.rows ?? []
OrEmpty(list) == IF list.present THEN list.items ELSE <<>>

\* headers.indexOf(name): the first position, counted from 0, or -1
indexOf(headers, name) ==
    LET hits == {i \in 1..Len(headers) : headers[i] = name}
    IN  IF hits = {} THEN -1 ELSE (CHOOSE h \in hits : \A g \in hits : h <= g) - 1

\* row?.[index]
CellOf(row, index) == IF index + 1 \in 1..Len(row) THEN row[index + 1] ELSE Undefined

\* the previous row taken to be the latest row whatever the number of rows
previousRowOfLatest(rows) == rows[Len(rows)]
\* rows.length > 1 ? rows[rows.length - 2] : rows[rows.length - 1]
previousRowOf(rows) == IF Len(rows) > 1 THEN rows[Len(rows) - 1] ELSE rows[Len(rows)]

fetchDomesticGoldSnapshotTabular(p) ==
    IF ~p.ok THEN RejectedSnapshot("Gold reference request failed")
    ELSE
    LET headers == OrEmpty(p.header)
        rows == OrEmpty(p.rows)
        krxIndex == indexOf(headers, "krxkrw")
    IN  IF krxIndex < 0 \/ Len(rows) = 0
        THEN RejectedSnapshot("Failed to parse reference price")
        ELSE
        LET rawPrice == ToNumber(CellOf(rows[Len(rows)], krxIndex))
            rawPrevious == ToNumber(CellOf(previousRowOf(rows), krxIndex))
        IN  IF ~IsFiniteNumber(rawPrice) \/ ~IsFiniteNumber(rawPrevious)
            THEN RejectedSnapshot("Invalid gold reference values")
            ELSE
            LET domesticKrwPerGram == KgToGram(rawPrice, rawPrice)
                previousDomesticKrwPerGram == KgToGram(rawPrice, rawPrevious)
            IN  FulfilledSnapshot(Snapshot(domesticKrwPerGram,
                    PercentOfPrevious(domesticKrwPerGram, previousDomesticKrwPerGram),
                    previousDomesticKrwPerGram, toIsoFromKstTabular(p.updated)))

(***************************************************************************)
(* Upstream payloads of the domestic sources                               *)
(***************************************************************************)
DateTexts ==
    { NoStr,
      Str(<<"2", "0", "2", "4", ".", "0", "5", ".", "1", "7", " ", "1", "4", ":", "3", "0">>),
      Str(<<"2", "0", "2", "4", "-", "0", "5", "-", "1", "7", " ", "1", "4", ":", "3", "0", ":", "4", "5">>),
      Str(<<"2", "0", "2", "4", "-", "0", "5", "-", "1", "7", "T", "1", "4", ":", "3", "0", ":", "4", "5", "+", "0", "9", ":", "0", "0">>),
      Str(<<"s", "o", "o", "n">>) }

PriceTexts ==
    { NoStr,
      Str(<<>>),
      Str(<<"n", "/", "a">>),
      Str(<<"0">>),
      Str(<<"-", "5">>),
      Str(<<"1", "3", "4", ",", "5", "0", "0">>),
      Str(<<"1", "3", "4", ",", "5", "0", "0", ".", "5", "0">>),
      Str(<<"1", ",", "0", "0", "0", ",", "0", "0", "0">>),
      Str(<<"1", ",", "0", "0", "0", ",", "0", "0", "1">>),
      Str(<<"1", ",", "3", "5", "0", ",", "0", "0", "0">>) }

PercentTexts ==
    { <<>>,
      <<"0", ".", "5", "0", "%">>,
      <<"5", "0", "%">>,
      <<"1", "0", "0", ".", "0", "0", "%">>,
      <<"1", "5", "0", "%">> }

ScrapePayload(ok, todayEm, percentText, isDown, isUp, dateText) ==
    [ok |-> ok, todayEm |-> todayEm, percentText |-> percentText,
     isDown |-> isDown, isUp |-> isUp, dateText |-> dateText]

ScrapeFailure == ScrapePayload(FALSE, NoStr, <<>>, FALSE, FALSE, NoStr)

ScrapePayloads ==
    {ScrapeFailure} \cup
    { ScrapePayload(TRUE, t, pc, dn, up, dt) :
        t \in PriceTexts, pc \in PercentTexts, dn \in BOOLEAN, up \in BOOLEAN,
        dt \in DateTexts }

\* the most rows a tabular payload holds
MaxRows == 2

PriceCells ==
    { Num(0), Num(-5), Num(134500), Num(1000000), Num(1000001), Num(1350000),
      StrNum(134500), StrEmpty, StrBad, Null }

TabularRows ==
    { <<c>> : c \in PriceCells } \cup { <<StrBad, c>> : c \in {Num(134500), Num(1350000)} }

TabularHeaders ==
    { NoList, List(<<"krxkrw">>), List(<<"date", "krxkrw">>), List(<<"date", "usdkrw">>) }

RECURSIVE SeqsUpTo(_, _)
SeqsUpTo(S, n) ==
    IF n = 0 THEN {<<>>}
    ELSE LET shorter == SeqsUpTo(S, n - 1)
         IN  shorter \cup {Append(q, x) : q \in shorter, x \in S}

TabularPayload(ok, header, rows, updated) ==
    [ok |-> ok, header |-> header, rows |-> rows, updated |-> updated]

TabularFailure == TabularPayload(FALSE, NoList, NoList, NoStr)

TabularPayloads ==
    {TabularFailure} \cup
    { TabularPayload(TRUE, h, r, u) :
        h \in TabularHeaders,
        r \in {NoList} \cup {List(q) : q \in SeqsUpTo(TabularRows, MaxRows)},
        u \in DateTexts }

(***************************************************************************)
(* Charts of the chart provider, and fetchChart (route.ts 72-95, part_001  *)
(* 72-95).  A chart holds meta?.regularMarketPrice, timestamp (a list of   *)
(* epoch seconds or undefined) and indicators?.quote?.[0]?.close (a list   *)
(* of numbers and nulls, or undefined).                                    *)
(***************************************************************************)
Chart(regularMarketPrice, timestamp, close) ==
    [regularMarketPrice |-> regularMarketPrice, timestamp |-> timestamp, close |-> close]

NoChart == Chart(Undefined, NoList, NoList)

FulfilledChart(v) == [st |-> "fulfilled", value |-> v, error |-> ""]
RejectedChart(msg) == [st |-> "rejected", value |-> NoChart, error |-> msg]
PendingChart == [st |-> "pending", value |-> NoChart, error |-> ""]

\* what the provider answers: a failed transport, a body without
\* chart.result[0], or a chart
ChartReply(ok, hasResult, chart) == [ok |-> ok, hasResult |-> hasResult, chart |-> chart]

fetchChart(reply) ==
    IF ~reply.ok THEN RejectedChart("Yahoo request failed")
    ELSE IF ~reply.hasResult THEN RejectedChart("Yahoo returned empty chart result")
    ELSE FulfilledChart(reply.chart)

\* the for loop of getLastValidNumber (route.ts 39-44) from index i down
RECURSIVE LastValidFrom(_, _)
LastValidFrom(values, i) ==
    IF i < 1 THEN Null
    ELSE IF IsFiniteNumber(values[i]) THEN values[i]
    ELSE LastValidFrom(values, i - 1)

\* getLastValidNumber looking at the last entry only
getLastValidNumberNoScan(values) ==
    IF ~values.present \/ Len(values.items) = 0 THEN Null
    ELSE IF IsFiniteNumber(values.items[Len(values.items)])
         THEN values.items[Len(values.items)] ELSE Null
\* getLastValidNumber (route.ts 34-46)
getLastValidNumber(values) ==
    IF ~values.present \/ Len(values.items) = 0 THEN Null
    ELSE LastValidFrom(values.items, Len(values.items))

\* chart.meta?.regularMarketPrice ?? getLastValidNumber(close)
marketValue(chart) ==
    Coalesce(chart.regularMarketPrice, getLastValidNumber(chart.close))

\* the guard of lines 165-172: what makes GET throw "Invalid market values received"
invalidMarketValues(goldPriceUsdPerOunce, usdKrw) ==
    ~IsFiniteNumber(goldPriceUsdPerOunce) \/ ~IsFiniteNumber(usdKrw)

\* chart.timestamp?.at(-1) ?? Math.floor(Date.now() / 1000)
lastTimestamp(chart, now) ==
    IF chart.timestamp.present /\ Len(chart.timestamp.items) > 0
    THEN Coalesce(chart.timestamp.items[Len(chart.timestamp.items)], Num(now))
    ELSE Num(now)

\* Math.max of two finite numbers
MathMax(a, b) == IF NumLt(a, b) THEN b ELSE a

\* new Date(Math.max(goldTimestamp, fxTimestamp) * 1000).toISOString()
yahooUpdatedAt(gold, fx, nowGold, nowFx) ==
    Str(toISOString(MathMax(lastTimestamp(gold, nowGold), lastTimestamp(fx, nowFx)).n))

\* updatedAt with the snapshot's own timestamp left out
updatedAtYahooFirst(snapshot, gold, fx, nowGold, nowFx) ==
    yahooUpdatedAt(gold, fx, nowGold, nowFx)
\* line 177: domesticGold.updatedAt ?? yahooUpdatedAt
updatedAtOf(snapshot, gold, fx, nowGold, nowFx) ==
    IF snapshot.updatedAt.present THEN snapshot.updatedAt
    ELSE yahooUpdatedAt(gold, fx, nowGold, nowFx)

(***************************************************************************)
(* The spot route's responses                                              *)
(***************************************************************************)
SpotRecord(price, gold, fx, prev, pct, at, source) ==
    [domesticKrwPerGram |-> price, goldPriceUsdPerOunce |-> gold, usdKrw |-> fx,
     previousDomesticKrwPerGram |-> prev, changePercent |-> pct, updatedAt |-> at,
     source |-> source]

NoSpotRecord == SpotRecord(Undefined, Undefined, Undefined, Undefined, Undefined, NoStr, "")

\* NextResponse.json(body, init): cacheControl is the Cache-Control header
\* of init, "" without one
NoSpotResponse ==
    [kind |-> "none", status |-> 0, cacheControl |-> "", body |-> NoSpotRecord, error |-> ""]
SpotOk(body) ==
    [kind |-> "record", status |-> 200, cacheControl |-> "no-store", body |-> body,
     error |-> ""]
SpotError(msg) ==
    [kind |-> "error", status |-> 500, cacheControl |-> "", body |-> NoSpotRecord,
     error |-> msg]

SpotSource(variant) ==
    IF variant = "scrape" THEN "Domestic: Naver Finance. Global: Yahoo Finance (GC=F, KRW=X)."
    ELSE "Domestic: KRX. Global: Yahoo Finance (GC=F, KRW=X)."

Locals(gold, fx) == [goldPriceUsdPerOunce |-> gold, usdKrw |-> fx]
NoLocals == Locals(Undefined, Undefined)

(***************************************************************************)
(* Promise.all([domestic, gold, fx]) (route.ts 153-157): rejected with the *)
(* reason of the first promise to reject, fulfilled once all three are.    *)
(***************************************************************************)
PendingAll == [st |-> "pending", error |-> ""]

\* a join that leaves the domestic promise out
PromiseAllChartsOnly(all, settled, d, g, f) ==
    IF all.st # "pending" THEN all
    ELSE IF settled.st = "rejected" /\ settled # d THEN [st |-> "rejected", error |-> settled.error]
    ELSE IF g.st = "fulfilled" /\ f.st = "fulfilled" THEN [st |-> "fulfilled", error |-> ""]
    ELSE all
\* the state of the joint promise after the promise `settled` settled
PromiseAll(all, settled, d, g, f) ==
    IF all.st # "pending" THEN all
    ELSE IF settled.st = "rejected" THEN [st |-> "rejected", error |-> settled.error]
    ELSE IF d.st = "fulfilled" /\ g.st = "fulfilled" /\ f.st = "fulfilled"
         THEN [st |-> "fulfilled", error |-> ""]
    ELSE all

(***************************************************************************)
(* Upstream payloads of the spot route                                     *)
(***************************************************************************)
\* the longest close array of a spot chart
MaxClose == 2

\* the close arrays: entry i is null, Infinity or the finite close 1890 + i
RECURSIVE CloseSeqs(_)
CloseSeqs(n) ==
    IF n = 0 THEN {<<>>}
    ELSE LET shorter == CloseSeqs(n - 1)
         IN  shorter \cup
             UNION { {Append(q, x) : x \in {Null, PosInf, Num(1890 + Len(q))}} :
                     q \in shorter }

CloseLists == {NoList} \cup {List(q) : q \in CloseSeqs(MaxClose)}

MarketPrices == {Undefined, Null, Num(0), Num(-5), Num(1900), PosInf}

TimestampLists ==
    { NoList, List(<<>>), List(<<Null>>), List(<<Num(1700000000)>>),
      List(<<Num(1700000000), Num(1700003600)>>),
      List(<<Num(1700003600), Num(1700000000)>>) }

\* what Math.floor(Date.now() / 1000) can read while a request is served
NowVals == {1700007200, 1700007201}

\* the charts the spot route is run on: every close array under an absent, a
\* null and a finite market price, every market price over one close array,
\* and every timestamp array
SpotCharts ==
    { Chart(rmp, List(<<Num(1700000000)>>), c) :
        rmp \in {Undefined, Null, Num(1900)}, c \in CloseLists }
    \cup { Chart(rmp, List(<<Num(1700000000)>>), List(<<Num(1890)>>)) : rmp \in MarketPrices }
    \cup { Chart(Num(1900), t, List(<<Num(1890)>>)) : t \in TimestampLists }

SpotChartReplies ==
    { ChartReply(FALSE, FALSE, NoChart), ChartReply(TRUE, FALSE, NoChart) }
    \cup { ChartReply(TRUE, TRUE, c) : c \in SpotCharts }

SpotScrapePayloads ==
    {ScrapeFailure} \cup
    { ScrapePayload(TRUE, t, <<"5", "0", "%">>, TRUE, FALSE, dt) :
        t \in {Str(<<>>), Str(<<"0">>), Str(<<"1", "3", "4", ",", "5", "0", "0">>)},
        dt \in {NoStr, Str(<<"2", "0", "2", "4", ".", "0", "5", ".", "1", "7", " ",
                             "1", "4", ":", "3", "0">>)} }

SpotTabularPayloads ==
    {TabularFailure} \cup
    { TabularPayload(TRUE, List(<<"krxkrw">>), r, u) :
        r \in {List(<<>>), List(<<<<Num(0)>>>>), List(<<<<Num(134000)>>, <<Num(134500)>>>>)},
        u \in {NoStr, Str(<<"2", "0", "2", "4", "-", "0", "5", "-", "1", "7", " ",
                            "1", "4", ":", "3", "0", ":", "4", "5">>)} }

(***************************************************************************)
(* The history route (part_001 200-359)                                    *)
(***************************************************************************)
\* const OUNCE_TO_GRAM = 31.1034768
OUNCE_TO_GRAM == Rat(311034768, 10000000)

SeriesPoint(ts, close) == [ts |-> ts, close |-> close]

Min(a, b) == IF a <= b THEN a ELSE b

\* the loop of parseSeries (lines 249-261) from index i on
RECURSIVE CollectPoints(_, _, _, _)
CollectPoints(timestamps, closes, i, length) ==
    IF i > length THEN <<>>
    ELSE IF ~IsFiniteNumber(timestamps[i]) \/ ~IsFiniteNumber(closes[i])
         THEN CollectPoints(timestamps, closes, i + 1, length)
    ELSE <<SeriesPoint(timestamps[i], closes[i])>>
         \o CollectPoints(timestamps, closes, i + 1, length)

\* points.sort((a, b) => a.ts - b.ts): a stable sort, ascending by ts
RECURSIVE InsertByTs(_, _)
InsertByTs(sorted, x) ==
    IF sorted = <<>> THEN <<x>>
    ELSE IF NumLt(x.ts, sorted[Len(sorted)].ts)
         THEN Append(InsertByTs(SubSeq(sorted, 1, Len(sorted) - 1), x), sorted[Len(sorted)])
    ELSE Append(sorted, x)

RECURSIVE SortByTs(_)
SortByTs(q) ==
    IF q = <<>> THEN <<>>
    ELSE InsertByTs(SortByTs(SubSeq(q, 1, Len(q) - 1)), q[Len(q)])

\* parseSeries without the sort of line 263
parseSeriesUnsorted(chart) ==
    LET timestamps == OrEmpty(chart.timestamp)
        closes == OrEmpty(chart.close)
    IN  CollectPoints(timestamps, closes, 1, Min(Len(timestamps), Len(closes)))
\* parseSeries (lines 243-264)
parseSeries(chart) ==
    LET timestamps == OrEmpty(chart.timestamp)
        closes == OrEmpty(chart.close)
    IN  SortByTs(CollectPoints(timestamps, closes, 1, Min(Len(timestamps), Len(closes))))

\* the while loop with < in place of <=
RECURSIVE advanceFxIndexStrict(_, _, _)
advanceFxIndexStrict(fx, index, ts) ==
    IF index + 1 < Len(fx) /\ NumLt(fx[index + 2].ts, ts)
    THEN advanceFxIndexStrict(fx, index + 1, ts)
    ELSE index
\* the while loop of line 300: the cursor after it has run for a metal point at ts
RECURSIVE advanceFxIndex(_, _, _)
advanceFxIndex(fx, index, ts) ==
    IF index + 1 < Len(fx) /\ ~NumLt(ts, fx[index + 2].ts)
    THEN advanceFxIndex(fx, index + 1, ts)
    ELSE index

HistoryPoint(ts, usdPerOunce, usdKrw, krwPerGram) ==
    [ts |-> ts, usdPerOunce |-> usdPerOunce, usdKrw |-> usdKrw, krwPerGram |-> krwPerGram]

\* lines 309-318: the point pushed for a metal point paired with an FX point
mergedPoint(goldPoint, fxPoint) ==
    HistoryPoint(goldPoint.ts, goldPoint.close, fxPoint.close,
                 NumDiv(NumMul(goldPoint.close, fxPoint.close), OUNCE_TO_GRAM))

\* one iteration of the for loop (lines 299-319) on the loop state
\* [fxIndex, points]
mergeIteration(loop, goldPoint, fx) ==
    LET index == advanceFxIndex(fx, loop.fxIndex, goldPoint.ts)
    IN  IF index + 1 \in 1..Len(fx)
        THEN [fxIndex |-> index,
              points |-> Append(loop.points, mergedPoint(goldPoint, fx[index + 1]))]
        ELSE [fxIndex |-> index, points |-> loop.points]

RECURSIVE mergeLoop(_, _, _, _)
mergeLoop(loop, gold, fx, i) ==
    IF i > Len(gold) THEN loop
    ELSE mergeLoop(mergeIteration(loop, gold[i], fx), gold, fx, i + 1)

mergeGoldAndFx(gold, fx) ==
    IF Len(gold) = 0 \/ Len(fx) = 0 THEN <<>>
    ELSE mergeLoop([fxIndex |-> 0, points |-> <<>>], gold, fx, 1).points

(***************************************************************************)
(* RANGE_CONFIG (lines 204-210) and the choice of rangeKey (lines 326-328) *)
(***************************************************************************)
RangeKeys == {"1mo", "6mo", "1y", "10y", "20y"}

Config(span, interval) == [range |-> span, interval |-> interval]

RANGE_CONFIG ==
    [k \in RangeKeys |->
        CASE k = "1mo" -> Config("1mo", "1h")
          [] k = "6mo" -> Config("6mo", "1d")
          [] k = "1y" -> Config("1y", "1d")
          [] k = "10y" -> Config("10y", "1wk")
          [] k = "20y" -> Config("20y", "1mo")]

\* the properties RANGE_CONFIG, an object literal, inherits from
\* Object.prototype
ObjectPrototypeKeys ==
    { "constructor", "toString", "toLocaleString", "valueOf", "hasOwnProperty",
      "isPrototypeOf", "propertyIsEnumerable", "__proto__", "__defineGetter__",
      "__defineSetter__", "__lookupGetter__", "__lookupSetter__" }

\* selected in RANGE_CONFIG: true of own and of inherited properties
InRangeConfig(selected) == selected \in RangeKeys \cup ObjectPrototypeKeys

\* selected && selected in RANGE_CONFIG ? selected : "1mo"
rangeKeyOf(selected) ==
    IF selected.present /\ selected.text # "" /\ InRangeConfig(selected.text)
    THEN selected.text ELSE "1mo"

\* const { range, interval } = RANGE_CONFIG[rangeKey]: an inherited property
\* is a function or Object.prototype, whose range and interval are undefined
configOf(key) ==
    IF key \in RangeKeys THEN RANGE_CONFIG[key] ELSE Config("undefined", "undefined")

Param(text) == [present |-> TRUE, text |-> text]
NoParam == [present |-> FALSE, text |-> ""]

HistoryResult(key, pts, source) == [range |-> key, points |-> pts, source |-> source]
NoHistoryResult == HistoryResult("", <<>>, "")

NoHistoryResponse ==
    [kind |-> "none", status |-> 0, cacheControl |-> "", body |-> NoHistoryResult,
     error |-> ""]
HistoryOk(body) ==
    [kind |-> "result", status |-> 200, cacheControl |-> "no-store", body |-> body,
     error |-> ""]
HistoryError(msg) ==
    [kind |-> "error", status |-> 500, cacheControl |-> "", body |-> NoHistoryResult,
     error |-> msg]

\* Promise.all([gold, fx]) of lines 330-333
PromiseAll2(all, settled, g, f) ==
    IF all.st # "pending" THEN all
    ELSE IF settled.st = "rejected" THEN [st |-> "rejected", error |-> settled.error]
    ELSE IF g.st = "fulfilled" /\ f.st = "fulfilled" THEN [st |-> "fulfilled", error |-> ""]
    ELSE all

\* GET of the history route answering an error when the merge has no point
historyGETEmptyIsError(key, all, gold, fx) ==
    IF all.st = "rejected" THEN HistoryError(all.error)
    ELSE IF mergeGoldAndFx(parseSeries(gold), parseSeries(fx)) = <<>>
    THEN HistoryError("No history points")
    ELSE HistoryOk(HistoryResult(key, mergeGoldAndFx(parseSeries(gold), parseSeries(fx)),
                                 "Yahoo Finance (GC=F, KRW=X)"))
\* GET of the history route after the await (lines 335-358)
historyGET(key, all, gold, fx) ==
    IF all.st = "rejected" THEN HistoryError(all.error)
    ELSE HistoryOk(HistoryResult(key, mergeGoldAndFx(parseSeries(gold), parseSeries(fx)),
                                 "Yahoo Finance (GC=F, KRW=X)"))

(***************************************************************************)
(* Inputs of the history route                                             *)
(***************************************************************************)
\* the longest metal and FX charts given to parseSeries in SpecAlign
MaxGold == 2
MaxFx == 3

\* the samples of a chart: sample i has a timestamp of 1..3 and the close
\* base + i, or a null timestamp, or a null close
RECURSIVE SampleSeqs(_, _)
SampleSeqs(base, n) ==
    IF n = 0 THEN {<<>>}
    ELSE LET shorter == SampleSeqs(base, n - 1)
         IN  shorter \cup
             UNION { {Append(q, x) :
                        x \in {SeriesPoint(Num(t), Num(base + Len(q) + 1)) : t \in 1..3}
                              \cup {SeriesPoint(Null, Num(base + Len(q) + 1)),
                                    SeriesPoint(Num(2), Null)}} :
                     q \in shorter }

ChartOfSamples(q) ==
    Chart(Undefined, List([i \in 1..Len(q) |-> q[i].ts]), List([i \in 1..Len(q) |-> q[i].close]))

AlignGoldCharts == {ChartOfSamples(q) : q \in SampleSeqs(10, MaxGold)}
AlignFxCharts == {ChartOfSamples(q) : q \in SampleSeqs(20, MaxFx)}

RangeParams ==
    { NoParam, Param(""), Param("1mo"), Param("6mo"), Param("1y"), Param("10y"),
      Param("20y"), Param("bogus"), Param("1MO"), Param("toString"), Param("constructor") }

\* the charts the history route is run on
HistoryCharts ==
    { NoChart,
      Chart(Undefined, List(<<Num(1), Num(2)>>), List(<<Num(11), Num(12)>>)),
      Chart(Undefined, List(<<Num(2), Num(1), Num(3)>>), List(<<Num(21), Null>>)),
      Chart(Undefined, List(<<Null>>), List(<<Num(11)>>)) }

HistoryChartReplies ==
    { ChartReply(FALSE, FALSE, NoChart), ChartReply(TRUE, FALSE, NoChart) }
    \cup { ChartReply(TRUE, TRUE, c) : c \in HistoryCharts }

NoPayload == [ok |-> FALSE]

(***************************************************************************)
(* The page (src/src/app/page.tsx).  TrendChart (lines 92-102): the two    *)
(* index sequences it draws.                                               *)
(***************************************************************************)
\* (value / first) * 100
rebase(value, first) ==
    LET quotient == NumDiv(value, first)
    IN  IF IsFiniteNumber(quotient) THEN NumMul(quotient, Num(100)) ELSE quotient

\* lines 96-98: first = points[0] and the two maps
TrendChart(pts) ==
    LET first == pts[1]
    IN  [domesticIndex |->
            [i \in 1..Len(pts) |-> rebase(pts[i].krwPerGram, first.krwPerGram)],
         globalIndex |->
            [i \in 1..Len(pts) |-> rebase(pts[i].usdPerOunce, first.usdPerOunce)]]

\* the most points given to TrendChart
MaxPoints == 3

\* the points a history result may hold at timestamp ts: a metal close of 0,
\* 10 or 20, an FX close of 10 or 15 times 31.1034768, and their product
\* divided by 31.1034768
TrendPointsAt(ts) ==
    { HistoryPoint(Num(ts), Num(u), NumMul(OUNCE_TO_GRAM, Num(k)), Num(u * k)) :
        u \in {0, 10, 20}, k \in {10, 15} }

RECURSIVE TrendPointSeqs(_)
TrendPointSeqs(n) ==
    IF n = 0 THEN {<<>>}
    ELSE LET shorter == TrendPointSeqs(n - 1)
         IN  shorter \cup
             UNION { {Append(q, x) : x \in TrendPointsAt(Len(q) + 1)} : q \in shorter }

IdleTrend ==
    /\ trendPc = "idle"
    /\ trendPoints = <<>>
    /\ domesticIndex = <<>>
    /\ globalIndex = <<>>

(***************************************************************************)
(* The page: fetchSpot (lines 146-176) and the polling effect (195-199).   *)
(* A call of fetchSpot is at "fetch" while it awaits fetch("/api/spot"),   *)
(* at "json" while it awaits response.json(), then "done" or "failed".     *)
(* Between two awaits a call runs without interleaving.                    *)
(***************************************************************************)
SpotCall(pc, payload) == [pc |-> pc, payload |-> payload]

\* Math.abs of a finite number
MathAbs(x) == Rat(Abs(x.n), x.d)

\* (s.goldPriceUsdPerOunce * s.usdKrw) / OUNCE_TO_GRAM, lines 156-157
globalKrwPerGram(s) == NumDiv(NumMul(s.goldPriceUsdPerOunce, s.usdKrw), OUNCE_TO_GRAM)

\* Math.abs(next - prev) >= 0.01
changedByCent(next, prev) == ~NumLt(MathAbs(NumSub(next, prev)), Rat(1, 100))

\* the flash keys after lines 155-166
flashKeysAfter(payload, prevSpot, domesticKey, globalKey) ==
    IF prevSpot = NoSpotRecord
    THEN [domestic |-> domesticKey, global |-> globalKey]
    ELSE [domestic |->
            IF changedByCent(payload.domesticKrwPerGram, prevSpot.domesticKrwPerGram)
            THEN domesticKey + 1 ELSE domesticKey,
          global |->
            IF changedByCent(globalKrwPerGram(payload), globalKrwPerGram(prevSpot))
            THEN globalKey + 1 ELSE globalKey]

\* prevSpotRef.current left as it was
keepPrevSpot(payload, prevSpot) == prevSpot
\* line 168: prevSpotRef.current = payload
storePrevSpot(payload, prevSpot) == payload

\* the message of the Error thrown at line 150
SpotLoadFailed == "spot data could not be loaded"

\* the most calls of fetchSpot: the call of the effect and the interval's
MaxSpotCalls == 3

\* the bodies /api/spot answers with: the domestic price changes by nothing,
\* by half a cent or by a won, the metal price by nothing or by a dollar
ClientSpotPayloads ==
    { SpotRecord(d, Num(g), Num(10), Num(100), Num(0), NoStr, SpotSource("scrape")) :
        d \in {Num(100), Rat(100005, 1000), Num(101)}, g \in {2, 3} }

IdleLive ==
    /\ spotCalls = <<>>
    /\ prevSpotRef = NoSpotRecord
    /\ spot = NoSpotRecord
    /\ spotError = ""
    /\ spotLoading = TRUE
    /\ domesticFlashKey = 0
    /\ globalFlashKey = 0

(***************************************************************************)
(* The page: fetchHistory (lines 178-193), the history effect (201-203)    *)
(* and the range buttons (315-326)                                         *)
(***************************************************************************)
\* the ids of ranges, lines 32-38
ranges == {"1mo", "6mo", "1y", "10y", "20y"}

HistoryCall(selectedRange, pc, payload) ==
    [selectedRange |-> selectedRange, pc |-> pc, payload |-> payload]

\* the message of the Error thrown at line 183
HistoryLoadFailed == "history data could not be loaded"

\* the most calls of fetchHistory
MaxHistoryCalls == 3

\* the bodies /api/history?range=... answers with
ClientHistoryPayloads(selectedRange) ==
    { HistoryResult(rangeKeyOf(Param(selectedRange)), pts, "Yahoo Finance (GC=F, KRW=X)") :
        pts \in { <<>>,
                  << HistoryPoint(Num(1), Num(10), NumMul(OUNCE_TO_GRAM, Num(10)), Num(100)),
                     HistoryPoint(Num(2), Num(20), NumMul(OUNCE_TO_GRAM, Num(10)), Num(200)),
                     HistoryPoint(Num(3), Num(20), NumMul(OUNCE_TO_GRAM, Num(15)), Num(300)) >> } }

IdlePast ==
    /\ range = "1mo"
    /\ historyCalls = <<>>
    /\ history = NoHistoryResult
    /\ historyLoading = TRUE
    /\ historyError = ""

IdleClient == IdleTrend /\ IdleLive /\ IdlePast

(***************************************************************************)
(* GET of the spot route after the await (route.ts 159-202, part_001       *)
(* 154-197): the locals it computes and the response it returns.           *)
(***************************************************************************)
spotGET(variant, all, snapshot, gold, fx, nowGold, nowFx) ==
    IF all.st = "rejected"
    THEN [locals |-> NoLocals, response |-> SpotError(all.error)]
    ELSE
    LET goldPriceUsdPerOunce == marketValue(gold)
        usdKrw == marketValue(fx)
    IN  IF invalidMarketValues(goldPriceUsdPerOunce, usdKrw)
        THEN [locals |-> Locals(goldPriceUsdPerOunce, usdKrw),
              response |-> SpotError("Invalid market values received")]
        ELSE [locals |-> Locals(goldPriceUsdPerOunce, usdKrw),
              response |-> SpotOk(SpotRecord(snapshot.domesticKrwPerGram,
                  goldPriceUsdPerOunce, usdKrw, snapshot.previousDomesticKrwPerGram,
                  snapshot.changePercent,
                  updatedAtOf(snapshot, gold, fx, nowGold, nowFx),
                  SpotSource(variant)))]

(***************************************************************************)
(* SpecSpot: one request to the spot route.  The three fetches settle in   *)
(* any order; nothing cancels a fetch that is still running when the       *)
(* response is made.                                                       *)
(***************************************************************************)
IdleDomestic ==
    /\ domVariant = "none"
    /\ domPayload = NoPayload
    /\ domResult = PendingSnapshot

IdleSpot ==
    /\ spotPc = "idle"
    /\ domesticGold = PendingSnapshot
    /\ goldChart = PendingChart
    /\ fxChart = PendingChart
    /\ spotAll = PendingAll
    /\ spotLocals = NoLocals
    /\ spotResponse = NoSpotResponse

IdleAlign ==
    /\ alignPc = "idle"
    /\ rawGold = NoChart
    /\ rawFx = NoChart
    /\ goldSeries = <<>>
    /\ fxSeries = <<>>
    /\ goldNext = 0
    /\ fxIndex = 0
    /\ points = <<>>

IdleHistory ==
    /\ histPc = "idle"
    /\ rangeParam = NoParam
    /\ rangeKey = ""
    /\ histConfig = Config("", "")
    /\ histGold = PendingChart
    /\ histFx = PendingChart
    /\ histAll = PendingAll
    /\ histResponse = NoHistoryResponse

InitSpot ==
    /\ IdleClient
    /\ spotVariant \in {"scrape", "tabular"}
    /\ IdleSpot
    /\ IdleDomestic
    /\ IdleAlign
    /\ IdleHistory

\* GET is entered: the three fetches are issued (lines 153-157)
SpotRequest ==
    /\ spotPc = "idle"
    /\ spotPc' = "awaiting"
    /\ UNCHANGED <<spotVariant, domesticGold, goldChart, fxChart, spotAll, spotLocals,
                   spotResponse, domVars, alignVars, histVars,
                   clientVars>>

SettleDomestic ==
    /\ spotPc # "idle"
    /\ domesticGold.st = "pending"
    /\ \E settled \in
            IF spotVariant = "scrape"
            THEN {fetchDomesticGoldSnapshotScrape(p) : p \in SpotScrapePayloads}
            ELSE {fetchDomesticGoldSnapshotTabular(p) : p \in SpotTabularPayloads} :
        /\ domesticGold' = settled
        /\ spotAll' = PromiseAll(spotAll, settled, settled, goldChart, fxChart)
    /\ UNCHANGED <<spotVariant, spotPc, goldChart, fxChart, spotLocals, spotResponse,
                   domVars, alignVars, histVars,
                   clientVars>>

SettleGold ==
    /\ spotPc # "idle"
    /\ goldChart.st = "pending"
    /\ \E reply \in SpotChartReplies :
        /\ goldChart' = fetchChart(reply)
        /\ spotAll' = PromiseAll(spotAll, goldChart', domesticGold, goldChart', fxChart)
    /\ UNCHANGED <<spotVariant, spotPc, domesticGold, fxChart, spotLocals, spotResponse,
                   domVars, alignVars, histVars,
                   clientVars>>

SettleFx ==
    /\ spotPc # "idle"
    /\ fxChart.st = "pending"
    /\ \E reply \in SpotChartReplies :
        /\ fxChart' = fetchChart(reply)
        /\ spotAll' = PromiseAll(spotAll, fxChart', domesticGold, goldChart, fxChart')
    /\ UNCHANGED <<spotVariant, spotPc, domesticGold, goldChart, spotLocals, spotResponse,
                   domVars, alignVars, histVars,
                   clientVars>>

\* the await resumes: the try block runs on, or the catch block runs
SpotRespond ==
    /\ spotPc = "awaiting"
    /\ spotAll.st # "pending"
    /\ \E nowGold \in NowVals, nowFx \in NowVals :
        LET out == spotGET(spotVariant, spotAll, domesticGold.value, goldChart.value,
                           fxChart.value, nowGold, nowFx)
        IN  /\ spotLocals' = out.locals
            /\ spotResponse' = out.response
    /\ spotPc' = "done"
    /\ UNCHANGED <<spotVariant, domesticGold, goldChart, fxChart, spotAll, domVars, alignVars, histVars,
                   clientVars>>

NextSpot == SpotRequest \/ SettleDomestic \/ SettleGold \/ SettleFx \/ SpotRespond

SpecSpot == InitSpot /\ [][NextSpot]_vars

(***************************************************************************)
(* SpecDomestic: one run of a domestic-source strategy on any payload      *)
(***************************************************************************)
InitDomestic ==
    /\ IdleClient
    /\ IdleDomestic
    /\ spotVariant = "scrape"
    /\ IdleSpot
    /\ IdleAlign
    /\ IdleHistory

DomesticScrape ==
    /\ domVariant = "none"
    /\ \E p \in ScrapePayloads :
        /\ domVariant' = "scrape"
        /\ domPayload' = p
        /\ domResult' = fetchDomesticGoldSnapshotScrape(p)
    /\ UNCHANGED <<spotVars, alignVars, histVars,
                   clientVars>>

DomesticTabular ==
    /\ domVariant = "none"
    /\ \E p \in TabularPayloads :
        /\ domVariant' = "tabular"
        /\ domPayload' = p
        /\ domResult' = fetchDomesticGoldSnapshotTabular(p)
    /\ UNCHANGED <<spotVars, alignVars, histVars,
                   clientVars>>

NextDomestic == DomesticScrape \/ DomesticTabular

SpecDomestic == InitDomestic /\ [][NextDomestic]_vars

(***************************************************************************)
(* SpecAlign: parseSeries on a metal and an FX chart, then mergeGoldAndFx  *)
(* on the two series, one iteration of its for loop at a time              *)
(***************************************************************************)
InitAlign ==
    /\ IdleClient
    /\ alignPc = "parse"
    /\ rawGold \in AlignGoldCharts
    /\ rawFx \in AlignFxCharts
    /\ goldSeries = <<>>
    /\ fxSeries = <<>>
    /\ goldNext = 0
    /\ fxIndex = 0
    /\ points = <<>>
    /\ IdleDomestic
    /\ spotVariant = "scrape"
    /\ IdleSpot
    /\ IdleHistory

\* lines 335-336, and mergeGoldAndFx up to its for loop (lines 292-297)
ParseSeries ==
    /\ alignPc = "parse"
    /\ goldSeries' = parseSeries(rawGold)
    /\ fxSeries' = parseSeries(rawFx)
    /\ alignPc' = "merge"
    /\ UNCHANGED <<rawGold, rawFx, goldNext, fxIndex, points, domVars, spotVars, histVars,
                   clientVars>>

\* line 292-294: an empty series ends the merge with no points
MergeEmpty ==
    /\ alignPc = "merge"
    /\ Len(goldSeries) = 0 \/ Len(fxSeries) = 0
    /\ alignPc' = "done"
    /\ UNCHANGED <<rawGold, rawFx, goldSeries, fxSeries, goldNext, fxIndex, points,
                   domVars, spotVars, histVars,
                   clientVars>>

\* one iteration of the for loop (lines 299-319)
MergeStep ==
    /\ alignPc = "merge"
    /\ Len(goldSeries) # 0 /\ Len(fxSeries) # 0
    /\ goldNext < Len(goldSeries)
    /\ LET loop == mergeIteration([fxIndex |-> fxIndex, points |-> points],
                                  goldSeries[goldNext + 1], fxSeries)
       IN  /\ fxIndex' = loop.fxIndex
           /\ points' = loop.points
    /\ goldNext' = goldNext + 1
    /\ UNCHANGED <<alignPc, rawGold, rawFx, goldSeries, fxSeries, domVars, spotVars,
                   histVars,
                   clientVars>>

\* line 321: the loop is over
MergeReturn ==
    /\ alignPc = "merge"
    /\ Len(goldSeries) # 0 /\ Len(fxSeries) # 0
    /\ goldNext = Len(goldSeries)
    /\ alignPc' = "done"
    /\ UNCHANGED <<rawGold, rawFx, goldSeries, fxSeries, goldNext, fxIndex, points,
                   domVars, spotVars, histVars,
                   clientVars>>

NextAlign == ParseSeries \/ MergeEmpty \/ MergeStep \/ MergeReturn

SpecAlign == InitAlign /\ [][NextAlign]_vars

(***************************************************************************)
(* SpecHistory: one request to the history route                           *)
(***************************************************************************)
InitHistory ==
    /\ IdleClient
    /\ IdleHistory
    /\ IdleDomestic
    /\ spotVariant = "scrape"
    /\ IdleSpot
    /\ IdleAlign

\* GET is entered with a query: lines 326-333
HistoryRequest ==
    /\ histPc = "idle"
    /\ \E selected \in RangeParams :
        /\ rangeParam' = selected
        /\ rangeKey' = rangeKeyOf(selected)
        /\ histConfig' = configOf(rangeKeyOf(selected))
    /\ histPc' = "awaiting"
    /\ UNCHANGED <<histGold, histFx, histAll, histResponse, domVars, spotVars, alignVars,
                   clientVars>>

HistorySettleGold ==
    /\ histPc # "idle"
    /\ histGold.st = "pending"
    /\ \E reply \in HistoryChartReplies :
        /\ histGold' = fetchChart(reply)
        /\ histAll' = PromiseAll2(histAll, histGold', histGold', histFx)
    /\ UNCHANGED <<histPc, rangeParam, rangeKey, histConfig, histFx, histResponse,
                   domVars, spotVars, alignVars,
                   clientVars>>

HistorySettleFx ==
    /\ histPc # "idle"
    /\ histFx.st = "pending"
    /\ \E reply \in HistoryChartReplies :
        /\ histFx' = fetchChart(reply)
        /\ histAll' = PromiseAll2(histAll, histFx', histGold, histFx')
    /\ UNCHANGED <<histPc, rangeParam, rangeKey, histConfig, histGold, histResponse,
                   domVars, spotVars, alignVars,
                   clientVars>>

HistoryRespond ==
    /\ histPc = "awaiting"
    /\ histAll.st # "pending"
    /\ histResponse' = historyGET(rangeKey, histAll, histGold.value, histFx.value)
    /\ histPc' = "done"
    /\ UNCHANGED <<rangeParam, rangeKey, histConfig, histGold, histFx, histAll,
                   domVars, spotVars, alignVars,
                   clientVars>>

NextHistory == HistoryRequest \/ HistorySettleGold \/ HistorySettleFx \/ HistoryRespond

SpecHistory == InitHistory /\ [][NextHistory]_vars

(***************************************************************************)
(* SpecTrend: TrendChart rendered on a non-empty sequence of points        *)
(***************************************************************************)
InitTrend ==
    /\ trendPc = "idle"
    /\ trendPoints \in TrendPointSeqs(MaxPoints) \ {<<>>}
    /\ domesticIndex = <<>>
    /\ globalIndex = <<>>
    /\ IdleLive
    /\ IdlePast
    /\ IdleDomestic
    /\ spotVariant = "scrape"
    /\ IdleSpot
    /\ IdleAlign
    /\ IdleHistory

\* lines 96-98
RenderTrendChart ==
    /\ trendPc = "idle"
    /\ domesticIndex' = TrendChart(trendPoints).domesticIndex
    /\ globalIndex' = TrendChart(trendPoints).globalIndex
    /\ trendPc' = "rendered"
    /\ UNCHANGED <<trendPoints, liveVars, pastVars, domVars, spotVars, alignVars, histVars>>

NextTrend == RenderTrendChart

SpecTrend == InitTrend /\ [][NextTrend]_vars

(***************************************************************************)
(* SpecLive: the page's polling of /api/spot.  The effect calls fetchSpot  *)
(* once and the interval calls it again every AUTO_REFRESH_MS, whether or  *)
(* not an earlier call has finished; responses arrive in any order.        *)
(***************************************************************************)
InitLive ==
    /\ IdleLive
    /\ IdleTrend
    /\ IdlePast
    /\ IdleDomestic
    /\ spotVariant = "scrape"
    /\ IdleSpot
    /\ IdleAlign
    /\ IdleHistory

\* the catch and finally blocks of fetchSpot (lines 171-175)
FetchSpotFails(i, message) ==
    /\ spotCalls' = [spotCalls EXCEPT ![i] = SpotCall("failed", NoSpotRecord)]
    /\ spotError' = message
    /\ spotLoading' = FALSE
    /\ UNCHANGED <<prevSpotRef, spot, domesticFlashKey, globalFlashKey>>

\* lines 196-197: fetchSpot is called and reaches its first await (line 148)
StartFetchSpot ==
    /\ Len(spotCalls) < MaxSpotCalls
    /\ spotCalls' = Append(spotCalls, SpotCall("fetch", NoSpotRecord))
    /\ UNCHANGED <<prevSpotRef, spot, spotError, spotLoading, domesticFlashKey,
                   globalFlashKey, trendVars, pastVars, domVars, spotVars, alignVars,
                   histVars>>

\* fetch rejects: the network failed
SpotFetchRejects ==
    /\ \E i \in 1..Len(spotCalls) :
        /\ spotCalls[i].pc = "fetch"
        /\ FetchSpotFails(i, "Failed to fetch")
    /\ UNCHANGED <<trendVars, pastVars, domVars, spotVars, alignVars, histVars>>

\* fetch resolves with a response that is not ok: line 150 throws
SpotResponseNotOk ==
    /\ \E i \in 1..Len(spotCalls) :
        /\ spotCalls[i].pc = "fetch"
        /\ FetchSpotFails(i, SpotLoadFailed)
    /\ UNCHANGED <<trendVars, pastVars, domVars, spotVars, alignVars, histVars>>

\* fetch resolves with an ok response: the call awaits response.json() (line 152)
SpotResponseOk ==
    /\ \E i \in 1..Len(spotCalls) :
        /\ spotCalls[i].pc = "fetch"
        /\ spotCalls' = [spotCalls EXCEPT ![i] = SpotCall("json", NoSpotRecord)]
    /\ UNCHANGED <<prevSpotRef, spot, spotError, spotLoading, domesticFlashKey,
                   globalFlashKey, trendVars, pastVars, domVars, spotVars, alignVars,
                   histVars>>

\* response.json() rejects: the body is not JSON
SpotJsonRejects ==
    /\ \E i \in 1..Len(spotCalls) :
        /\ spotCalls[i].pc = "json"
        /\ FetchSpotFails(i, "Unexpected end of JSON input")
    /\ UNCHANGED <<trendVars, pastVars, domVars, spotVars, alignVars, histVars>>

\* response.json() resolves: lines 152-170 and the finally block run
SpotJsonResolves ==
    /\ \E i \in 1..Len(spotCalls), payload \in ClientSpotPayloads :
        /\ spotCalls[i].pc = "json"
        /\ LET prevSpot == prevSpotRef
               keys == flashKeysAfter(payload, prevSpot, domesticFlashKey, globalFlashKey)
           IN  /\ domesticFlashKey' = keys.domestic
               /\ globalFlashKey' = keys.global
               /\ prevSpotRef' = storePrevSpot(payload, prevSpot)
        /\ spot' = payload
        /\ spotError' = ""
        /\ spotLoading' = FALSE
        /\ spotCalls' = [spotCalls EXCEPT ![i] = SpotCall("done", payload)]
    /\ UNCHANGED <<trendVars, pastVars, domVars, spotVars, alignVars, histVars>>

NextLive ==
    \/ StartFetchSpot
    \/ SpotFetchRejects
    \/ SpotResponseNotOk
    \/ SpotResponseOk
    \/ SpotJsonRejects
    \/ SpotJsonResolves

SpecLive == InitLive /\ [][NextLive]_vars

(***************************************************************************)
(* SpecPast: the page's history panel.  The history effect calls           *)
(* fetchHistory(range) after the first render and after every render in    *)
(* which range has changed; no call is cancelled, and responses arrive in  *)
(* any order.                                                              *)
(***************************************************************************)
InitPast ==
    /\ IdlePast
    /\ IdleTrend
    /\ IdleLive
    /\ IdleDomestic
    /\ spotVariant = "scrape"
    /\ IdleSpot
    /\ IdleAlign
    /\ IdleHistory

\* fetchHistory(selectedRange) up to its first await: lines 180-181
StartFetchHistory(selectedRange) ==
    /\ historyLoading' = TRUE
    /\ historyCalls' = Append(historyCalls, HistoryCall(selectedRange, "fetch", NoHistoryResult))

\* the catch and finally blocks of fetchHistory (lines 188-192)
FetchHistoryFails(i, message) ==
    /\ historyCalls' = [historyCalls EXCEPT ![i].pc = "failed"]
    /\ historyError' = message
    /\ historyLoading' = FALSE
    /\ UNCHANGED <<range, history>>

\* the effect of lines 201-203 after the first render
HistoryEffectOnMount ==
    /\ historyCalls = <<>>
    /\ StartFetchHistory(range)
    /\ UNCHANGED <<range, history, historyError, trendVars, liveVars, domVars, spotVars,
                   alignVars, histVars>>

\* a range button other than the active one is clicked (line 321): range
\* changes and the effect of lines 201-203 runs again
SelectRange ==
    /\ historyCalls # <<>>
    /\ Len(historyCalls) < MaxHistoryCalls
    /\ \E id \in ranges \ {range} :
        /\ range' = id
        /\ StartFetchHistory(id)
    /\ UNCHANGED <<history, historyError, trendVars, liveVars, domVars, spotVars,
                   alignVars, histVars>>

\* fetch rejects: the network failed
HistoryFetchRejects ==
    /\ \E i \in 1..Len(historyCalls) :
        /\ historyCalls[i].pc = "fetch"
        /\ FetchHistoryFails(i, "Failed to fetch")
    /\ UNCHANGED <<trendVars, liveVars, domVars, spotVars, alignVars, histVars>>

\* fetch resolves with a response that is not ok: line 183 throws
HistoryResponseNotOk ==
    /\ \E i \in 1..Len(historyCalls) :
        /\ historyCalls[i].pc = "fetch"
        /\ FetchHistoryFails(i, HistoryLoadFailed)
    /\ UNCHANGED <<trendVars, liveVars, domVars, spotVars, alignVars, histVars>>

\* fetch resolves with an ok response: the call awaits response.json() (line 185)
HistoryResponseOk ==
    /\ \E i \in 1..Len(historyCalls) :
        /\ historyCalls[i].pc = "fetch"
        /\ historyCalls' = [historyCalls EXCEPT ![i].pc = "json"]
    /\ UNCHANGED <<range, history, historyLoading, historyError, trendVars, liveVars,
                   domVars, spotVars, alignVars, histVars>>

\* response.json() rejects: the body is not JSON
HistoryJsonRejects ==
    /\ \E i \in 1..Len(historyCalls) :
        /\ historyCalls[i].pc = "json"
        /\ FetchHistoryFails(i, "Unexpected end of JSON input")
    /\ UNCHANGED <<trendVars, liveVars, domVars, spotVars, alignVars, histVars>>

\* response.json() resolves: lines 185-187 and the finally block run
HistoryJsonResolves ==
    /\ \E i \in 1..Len(historyCalls) :
        /\ historyCalls[i].pc = "json"
        /\ \E payload \in ClientHistoryPayloads(historyCalls[i].selectedRange) :
            /\ history' = payload
            /\ historyCalls' = [historyCalls EXCEPT ![i].pc = "done", ![i].payload = payload]
        /\ historyError' = ""
        /\ historyLoading' = FALSE
    /\ UNCHANGED <<range, trendVars, liveVars, domVars, spotVars, alignVars, histVars>>

NextPast ==
    \/ HistoryEffectOnMount
    \/ SelectRange
    \/ HistoryFetchRejects
    \/ HistoryResponseNotOk
    \/ HistoryResponseOk
    \/ HistoryJsonRejects
    \/ HistoryJsonResolves

SpecPast == InitPast /\ [][NextPast]_vars

(***************************************************************************)
(* Properties of the spot route (SpecSpot)                                 *)
(***************************************************************************)
AllThreeFulfilled ==
    /\ domesticGold.st = "fulfilled"
    /\ goldChart.st = "fulfilled"
    /\ fxChart.st = "fulfilled"

AnyRejected ==
    \/ domesticGold.st = "rejected"
    \/ goldChart.st = "rejected"
    \/ fxChart.st = "rejected"

\* C1: once the spot route has answered, a failed fetch means the answer is
\* an error response with status 500 that carries no record field; a record
\* is answered only when all three fetches succeeded, and its domestic
\* fields are those of the fetched snapshot.
C1_AllOrNothing ==
    spotResponse.kind # "none" =>
        /\ AnyRejected =>
            /\ spotResponse.kind = "error"
            /\ spotResponse.status = 500
            /\ spotResponse.body = NoSpotRecord
        /\ spotResponse.kind = "record" =>
            /\ AllThreeFulfilled
            /\ spotResponse.body.domesticKrwPerGram = domesticGold.value.domesticKrwPerGram
            /\ spotResponse.body.previousDomesticKrwPerGram
                 = domesticGold.value.previousDomesticKrwPerGram
            /\ spotResponse.body.changePercent = domesticGold.value.changePercent

\* C1's case: the domestic fetch failed beside two charts that were fetched,
\* and the route answered with an error.
C1_Witness ==
    /\ spotResponse.kind = "error"
    /\ domesticGold.st = "rejected"
    /\ goldChart.st = "fulfilled" /\ IsFiniteNumber(marketValue(goldChart.value))
    /\ fxChart.st = "fulfilled" /\ IsFiniteNumber(marketValue(fxChart.value))

IsPositiveFinite(v) == IsFiniteNumber(v) /\ v.n > 0

\* C5: the spot route answers "Invalid market values received" unless both
\* goldPriceUsdPerOunce and usdKrw are finite positive numbers, and no
\* record carries a goldPriceUsdPerOunce or usdKrw that is not.
C5_PositiveMarketValues ==
    /\ spotResponse.kind = "record" =>
        /\ IsPositiveFinite(spotResponse.body.goldPriceUsdPerOunce)
        /\ IsPositiveFinite(spotResponse.body.usdKrw)
    /\ (spotPc = "done" /\ spotAll.st = "fulfilled"
        /\ ~(IsPositiveFinite(marketValue(goldChart.value))
             /\ IsPositiveFinite(marketValue(fxChart.value)))) =>
        spotResponse = SpotError("Invalid market values received")

\* the last entry of a chart's timestamp array, the clock's reading for a
\* chart without one
LastEntryOr(chart, now) ==
    LET t == OrEmpty(chart.timestamp)
    IN  IF t # <<>> /\ ~IsNullish(t[Len(t)]) THEN t[Len(t)] ELSE Num(now)

HasLastEntry(chart) ==
    LET t == OrEmpty(chart.timestamp) IN t # <<>> /\ ~IsNullish(t[Len(t)])

\* C9 as stated: a record's updatedAt is the snapshot's canonical timestamp
\* when there is one, otherwise the UTC ISO-8601 rendering of the later of
\* the two charts' last timestamps (of the one chart that has timestamps
\* when the other has none).
C9_UpdatedAtFromCharts ==
    (spotResponse.kind = "record"
     /\ (HasLastEntry(goldChart.value) \/ HasLastEntry(fxChart.value))) =>
        LET g == goldChart.value
            f == fxChart.value
            later == IF ~HasLastEntry(g) THEN LastEntryOr(f, 0)
                     ELSE IF ~HasLastEntry(f) THEN LastEntryOr(g, 0)
                     ELSE MathMax(LastEntryOr(g, 0), LastEntryOr(f, 0))
        IN  spotResponse.body.updatedAt =
                IF domesticGold.value.updatedAt.present
                THEN domesticGold.value.updatedAt
                ELSE Str(toISOString(later.n))

\* C9 amended: a record's updatedAt is the snapshot's canonical timestamp
\* when there is one, otherwise the UTC ISO-8601 rendering of the later of
\* the two charts' last timestamp entries, the clock's reading in whole
\* seconds standing in for a chart whose timestamp array is missing, empty
\* or ends in null.
C9_UpdatedAtWithClock ==
    spotResponse.kind = "record" =>
        IF domesticGold.value.updatedAt.present
        THEN spotResponse.body.updatedAt = domesticGold.value.updatedAt
        ELSE \E nowGold \in NowVals, nowFx \in NowVals :
                LET g == LastEntryOr(goldChart.value, nowGold)
                    f == LastEntryOr(fxChart.value, nowFx)
                IN  spotResponse.body.updatedAt
                        = Str(toISOString((IF NumLt(g, f) THEN f ELSE g).n))

\* C9's case: a record whose snapshot has no timestamp and whose metal chart
\* has no timestamps, so that the clock decides updatedAt.
C9_Witness ==
    /\ spotResponse.kind = "record"
    /\ ~domesticGold.value.updatedAt.present
    /\ ~HasLastEntry(goldChart.value)
    /\ HasLastEntry(fxChart.value)
    /\ spotResponse.body.updatedAt
         \in {Str(toISOString(now)) : now \in NowVals}

\* the value the claim names for a chart: regularMarketPrice when the chart
\* has one, otherwise the finite close after which only nulls and
\* non-finite entries follow, otherwise null
IsValueOfChart(v, chart) ==
    LET closes == OrEmpty(chart.close)
        finite == {i \in 1..Len(closes) : IsFiniteNumber(closes[i])}
    IN  IF ~IsNullish(chart.regularMarketPrice) THEN v = chart.regularMarketPrice
        ELSE IF finite = {} THEN v = Null
        ELSE \E i \in finite : (\A j \in finite : j <= i) /\ v = closes[i]

\* C10: once all three fetches succeeded, the value GET uses for each
\* instrument is regularMarketPrice when present, otherwise the last finite
\* close found past any trailing null or non-finite entries; with neither,
\* the route answers with an error.
C10_MarketValueFallback ==
    (spotPc = "done" /\ spotAll.st = "fulfilled") =>
        /\ IsValueOfChart(spotLocals.goldPriceUsdPerOunce, goldChart.value)
        /\ IsValueOfChart(spotLocals.usdKrw, fxChart.value)
        /\ (spotLocals.goldPriceUsdPerOunce = Null \/ spotLocals.usdKrw = Null) =>
            spotResponse.kind = "error"
        /\ spotResponse.kind = "record" =>
            /\ spotResponse.body.goldPriceUsdPerOunce = spotLocals.goldPriceUsdPerOunce
            /\ spotResponse.body.usdKrw = spotLocals.usdKrw

\* C10's case: a record whose metal chart has no regularMarketPrice and a
\* close array that ends in a null, so that the scan steps back to the
\* close before it.
C10_Witness ==
    /\ spotResponse.kind = "record"
    /\ goldChart.value.regularMarketPrice = Undefined
    /\ goldChart.value.close = List(<<Num(1890), Null>>)
    /\ spotResponse.body.goldPriceUsdPerOunce = Num(1890)
    /\ fxChart.value.regularMarketPrice = Num(1900)

(***************************************************************************)
(* Properties of the domestic-source strategies (SpecDomestic)             *)
(***************************************************************************)
\* the raw price a strategy extracted from its payload, and in the tabular
\* strategy the raw price of the previous row
RawPrice ==
    IF domVariant = "scrape"
    THEN parseNumber(KeepPriceChars(domPayload.todayEm.chars))
    ELSE LET rows == domPayload.rows.items
         IN  ToNumber(CellOf(rows[Len(rows)], indexOf(domPayload.header.items, "krxkrw")))

RawPrevious ==
    LET rows == domPayload.rows.items
    IN  ToNumber(CellOf(rows[IF Len(rows) > 1 THEN Len(rows) - 1 ELSE 1],
                        indexOf(domPayload.header.items, "krxkrw")))

\* C6: every snapshot a domestic-source strategy returns has a positive
\* pricePerGram and a positive previousPricePerGram.
C6_PositivePrices ==
    domResult.st = "fulfilled" =>
        /\ IsPositiveFinite(domResult.value.domesticKrwPerGram)
        /\ IsPositiveFinite(domResult.value.previousDomesticKrwPerGram)

\* v is raw / 1000 when the latest raw price p exceeds 1,000,000, and raw
\* itself otherwise
IsNormalized(v, raw, p) ==
    IF p.n > 1000000 * p.d THEN NumMul(v, Num(1000)) = raw ELSE v = raw

\* C7: the snapshot's gram price is the raw price p divided by 1000 when
\* p > 1,000,000 and p unchanged otherwise; in the tabular strategy the
\* previous row's price is divided by 1000 exactly when the latest row's is.
C7_UnitNormalization ==
    domResult.st = "fulfilled" =>
        /\ IsNormalized(domResult.value.domesticKrwPerGram, RawPrice, RawPrice)
        /\ domVariant = "tabular" =>
            IsNormalized(domResult.value.previousDomesticKrwPerGram, RawPrevious, RawPrice)

\* C7's case: a tabular payload whose latest row is above the threshold and
\* whose previous row is below it; both are divided by 1000.
C7_Witness ==
    /\ domVariant = "tabular"
    /\ domResult.st = "fulfilled"
    /\ RawPrice = Num(1350000)
    /\ RawPrevious = Num(134500)
    /\ domResult.value.domesticKrwPerGram = Num(1350)
    /\ domResult.value.previousDomesticKrwPerGram = Rat(269, 2)

\* price / (1 + changePercent / 100), for changePercent # -100
QuotientOfPercent(price, changePercent) ==
    NumDiv(NumMul(price, Num(100)), NumAdd(Num(100), changePercent))

\* C8 as stated: in the scrape strategy previousPrice is
\* currentPrice / (1 + changePercent / 100) for every changePercent other
\* than -100, and currentPrice when changePercent is -100.
C8_PreviousFromPercent ==
    (domVariant = "scrape" /\ domResult.st = "fulfilled") =>
        LET v == domResult.value
        IN  IF v.changePercent = Num(-100)
            THEN v.previousDomesticKrwPerGram = v.domesticKrwPerGram
            ELSE v.previousDomesticKrwPerGram
                    = QuotientOfPercent(v.domesticKrwPerGram, v.changePercent)

\* C8 amended: in the scrape strategy previousPrice is
\* currentPrice / (1 + changePercent / 100) whenever changePercent is not
\* -100 and that quotient is a finite positive number; previousPrice is
\* currentPrice when changePercent is -100 or the quotient is not a finite
\* positive number.
C8_PreviousFromPercentGuarded ==
    (domVariant = "scrape" /\ domResult.st = "fulfilled") =>
        LET v == domResult.value
        IN  IF v.changePercent # Num(-100)
               /\ IsPositiveFinite(QuotientOfPercent(v.domesticKrwPerGram, v.changePercent))
            THEN v.previousDomesticKrwPerGram
                    = QuotientOfPercent(v.domesticKrwPerGram, v.changePercent)
            ELSE v.previousDomesticKrwPerGram = v.domesticKrwPerGram

\* C8's case: a positive price that fell by 150 percent; the quotient is
\* negative and the previous price is the current price.
C8_Witness ==
    /\ domVariant = "scrape"
    /\ domResult.st = "fulfilled"
    /\ domResult.value.changePercent = Num(-150)
    /\ domResult.value.domesticKrwPerGram = Num(134500)
    /\ domResult.value.previousDomesticKrwPerGram = Num(134500)

(***************************************************************************)
(* Properties of the history merge (SpecAlign)                             *)
(***************************************************************************)
\* the FX sample the claim pairs with a metal timestamp: the one of the
\* largest index whose timestamp is <= ts, the first one when there is none
LatestFxAtOrBefore(ts) ==
    LET atOrBefore == {j \in 1..Len(fxSeries) : ~NumLt(ts, fxSeries[j].ts)}
    IN  IF atOrBefore = {} THEN fxSeries[1]
        ELSE fxSeries[CHOOSE j \in atOrBefore : \A k \in atOrBefore : k <= j]

C2_PairedFx ==
    alignPc \in {"merge", "done"} =>
        \A k \in 1..Len(points) :
            points[k].usdKrw = LatestFxAtOrBefore(goldSeries[k].ts).close

\* C2: every point of the merge carries as usdKrw the close of the latest FX
\* sample at or before its metal point's timestamp, or of the first FX
\* sample when there is none, and the FX cursor never decreases.
C2_ForwardJoin == [](C2_PairedFx) /\ [][fxIndex' >= fxIndex]_vars

\* C2's case: a finished merge whose first metal point precedes every FX
\* sample and is paired with the first one, and whose cursor then moved on
\* by two samples.
C2_Witness ==
    /\ alignPc = "done"
    /\ Len(points) = 2
    /\ Len(fxSeries) = 3
    /\ NumLt(goldSeries[1].ts, fxSeries[1].ts)
    /\ points[1].usdKrw = fxSeries[1].close
    /\ fxIndex = 2
    /\ points[2].usdKrw = fxSeries[3].close

\* C3: a finished merge of two non-empty series has one point per metal
\* point, in the metal series' order, with that point's ts and close and
\* with krwPerGram = usdPerOunce * usdKrw / 31.1034768; its timestamps do
\* not decrease.
C3_OnePointPerMetalPoint ==
    (alignPc = "done" /\ goldSeries # <<>> /\ fxSeries # <<>>) =>
        /\ Len(points) = Len(goldSeries)
        /\ \A k \in 1..Len(points) :
            /\ points[k].ts = goldSeries[k].ts
            /\ points[k].usdPerOunce = goldSeries[k].close
            /\ points[k].krwPerGram
                 = NumDiv(NumMul(points[k].usdPerOunce, points[k].usdKrw),
                          Rat(311034768, 10000000))
        /\ \A k \in 1..(Len(points) - 1) : ~NumLt(points[k + 1].ts, points[k].ts)
        /\ \A i \in 1..Len(OrEmpty(rawGold.timestamp)) :
            (IsFiniteNumber(rawGold.timestamp.items[i])
             /\ IsFiniteNumber(rawGold.close.items[i])) =>
                \E k \in 1..Len(points) :
                    /\ points[k].ts = rawGold.timestamp.items[i]
                    /\ points[k].usdPerOunce = rawGold.close.items[i]

\* C3's case: a metal chart whose two samples arrive in descending
\* timestamp order; the merge is finished with two points in ascending
\* order.
C3_Witness ==
    /\ alignPc = "done"
    /\ Len(points) = 2
    /\ fxSeries # <<>>
    /\ NumLt(rawGold.timestamp.items[2], rawGold.timestamp.items[1])
    /\ NumLt(points[1].ts, points[2].ts)

(***************************************************************************)
(* Properties of the history route (SpecHistory)                           *)
(***************************************************************************)
\* C4: whatever the range parameter, the request is served with one entry
\* of RANGE_CONFIG: a recognized identifier with its own entry, a missing or
\* unrecognized one with the entry of 1mo, and the result reports that key.
C4_RangeDefault ==
    histPc # "idle" =>
        /\ rangeKey \in RangeKeys
        /\ histConfig = RANGE_CONFIG[rangeKey]
        /\ rangeKey = IF rangeParam.present /\ rangeParam.text \in RangeKeys
                      THEN rangeParam.text ELSE "1mo"
        /\ histResponse.kind = "result" => histResponse.body.range = rangeKey


(***************************************************************************)
(* Properties of the history route (SpecHistory), continued                *)
(***************************************************************************)
EmptyAfterIngestion(chart) == parseSeries(chart) = <<>>

\* C12: when both charts were fetched and the metal series or the FX series
\* is empty after parseSeries, the history route answers a result (status
\* 200, not an error) whose points are the empty sequence.
C12_EmptySeriesEmptyResult ==
    (/\ histPc = "done"
     /\ histAll.st = "fulfilled"
     /\ EmptyAfterIngestion(histGold.value) \/ EmptyAfterIngestion(histFx.value))
    => /\ histResponse.kind = "result"
       /\ histResponse.status = 200
       /\ histResponse.body.points = <<>>
       /\ histResponse.body.range = rangeKey

\* a request answered with a metal series that has points and an FX series
\* that has none
C12_Witness ==
    /\ histPc = "done"
    /\ histAll.st = "fulfilled"
    /\ ~EmptyAfterIngestion(histGold.value)
    /\ EmptyAfterIngestion(histFx.value)
    /\ histResponse.kind = "result"
    /\ histResponse.body.points = <<>>


(***************************************************************************)
(* Properties of the domestic sources (SpecDomestic), continued            *)
(***************************************************************************)
\* the upstream timestamp of the payload that was run
UpstreamTimestamp == IF domVariant = "scrape" THEN domPayload.dateText ELSE domPayload.updated

\* the three forms an upstream timestamp may have
IsDottedMinutes(s) ==
    /\ Len(s) = 16
    /\ DigitsAt(s, 1, 4) /\ s[5] = "." /\ DigitsAt(s, 6, 2) /\ s[8] = "."
    /\ DigitsAt(s, 9, 2) /\ s[11] = " " /\ DigitsAt(s, 12, 2) /\ s[14] = ":"
    /\ DigitsAt(s, 15, 2)

IsDashedSeconds(s) ==
    /\ Len(s) = 19
    /\ DigitsAt(s, 1, 4) /\ s[5] = "-" /\ DigitsAt(s, 6, 2) /\ s[8] = "-"
    /\ DigitsAt(s, 9, 2) /\ s[11] = " " /\ DigitsAt(s, 12, 2) /\ s[14] = ":"
    /\ DigitsAt(s, 15, 2) /\ s[17] = ":" /\ DigitsAt(s, 18, 2)

IsIsoWithOffset(s) ==
    /\ Len(s) = 25
    /\ DigitsAt(s, 1, 4) /\ s[5] = "-" /\ DigitsAt(s, 6, 2) /\ s[8] = "-"
    /\ DigitsAt(s, 9, 2) /\ s[11] = "T" /\ DigitsAt(s, 12, 2) /\ s[14] = ":"
    /\ DigitsAt(s, 15, 2) /\ s[17] = ":" /\ DigitsAt(s, 18, 2)
    /\ s[20] \in {"+", "-"} /\ DigitsAt(s, 21, 2) /\ s[23] = ":" /\ DigitsAt(s, 24, 2)

\* YYYY-MM-DDTHH:MM:SS+09:00 from the fields of a text of the first two forms
CanonicalFields(s, second) ==
    SubSeq(s, 1, 4) \o <<"-">> \o SubSeq(s, 6, 7) \o <<"-">> \o SubSeq(s, 9, 10)
    \o <<"T">> \o SubSeq(s, 12, 13) \o <<":">> \o SubSeq(s, 15, 16) \o <<":">>
    \o second \o <<"+", "0", "9", ":", "0", "0">>

CanonicalTimestamp(value) ==
    IF ~value.present THEN NoStr
    ELSE IF IsDottedMinutes(value.chars)
         THEN Str(CanonicalFields(value.chars, <<"0", "0">>))
    ELSE IF IsDashedSeconds(value.chars)
         THEN Str(CanonicalFields(value.chars, SubSeq(value.chars, 18, 19)))
    ELSE IF IsIsoWithOffset(value.chars) THEN value
    ELSE NoStr

\* C13: the updatedAt of every snapshot a strategy returns is the canonical
\* form of the upstream timestamp: YYYY-MM-DDTHH:MM:SS+09:00 for a text
\* YYYY.MM.DD HH:MM (seconds 00) or YYYY-MM-DD HH:MM:SS, the text itself for
\* an ISO-8601 text with an offset, null for an absent or unparseable one.
C13_Canonicalization ==
    domResult.st = "fulfilled" =>
        domResult.value.updatedAt = CanonicalTimestamp(UpstreamTimestamp)


\* the gram price of a raw tabular price: both rows are divided by 1000
\* when the latest row's raw price is above 1,000,000
GramOf(raw) == IF NumLt(Num(1000000), RawPrice) THEN NumDiv(raw, Num(1000)) ELSE raw

\* (latest - previous) / previous * 100 as JavaScript computes it
PercentFormula(latest, previous) ==
    IF previous.n # 0
    THEN NumMul(NumDiv(NumSub(latest, previous), previous), Num(100))
    ELSE IF latest.n = 0 THEN NaN
    ELSE IF latest.n > 0 THEN PosInf ELSE NegInf

TabularReturned == domVariant = "tabular" /\ domResult.st = "fulfilled"

PercentMagnitude(text) ==
    CASE text = <<>> -> Num(0)
      [] text = <<"0", ".", "5", "0", "%">> -> Rat(1, 2)
      [] text = <<"5", "0", "%">> -> Num(50)
      [] text = <<"1", "0", "0", ".", "0", "0", "%">> -> Num(100)
      [] text = <<"1", "5", "0", "%">> -> Num(150)

ScrapeReturned == domVariant = "scrape" /\ domResult.st = "fulfilled"

\* C16: in the scrape strategy changePercent is the magnitude of the percent
\* text, negated exactly when the down marker is present: it is positive
\* with the up marker alone and with neither marker.
C16_SignFromMarkers ==
    ScrapeReturned =>
        domResult.value.changePercent =
            IF domPayload.isDown
            THEN NumSub(Num(0), PercentMagnitude(domPayload.percentText))
            ELSE PercentMagnitude(domPayload.percentText)

\* a snapshot of a page with a percent and neither marker
C16_Witness ==
    /\ ScrapeReturned
    /\ ~domPayload.isDown
    /\ ~domPayload.isUp
    /\ domPayload.percentText = <<"0", ".", "5", "0", "%">>
    /\ domResult.value.changePercent = Rat(1, 2)


(***************************************************************************)
(* Properties of the responses of both routes                              *)
(***************************************************************************)
\* C17: every response of the spot route and of the history route, a record
\* or result as well as an { error } body, carries Cache-Control: no-store.
C17_NoStoreOnEveryResponse ==
    /\ spotResponse.kind # "none" => spotResponse.cacheControl = "no-store"
    /\ histResponse.kind # "none" => histResponse.cacheControl = "no-store"


(***************************************************************************)
(* Properties of the page's TrendChart (SpecTrend)                         *)
(***************************************************************************)
\* C15: once TrendChart has rendered a non-empty sequence of points, the
\* first value of domesticIndex and of globalIndex is exactly 100, and with
\* a single point each index is the single value 100.
C15_FirstIndexIs100 ==
    trendPc = "rendered" =>
        /\ Len(domesticIndex) = Len(trendPoints)
        /\ Len(globalIndex) = Len(trendPoints)
        /\ domesticIndex[1] = Num(100)
        /\ globalIndex[1] = Num(100)
        /\ Len(trendPoints) = 1 =>
            /\ domesticIndex = <<Num(100)>>
            /\ globalIndex = <<Num(100)>>

(***************************************************************************)
(* Properties of the page's polling (SpecLive)                             *)
(***************************************************************************)
\* the calls of fetchSpot that complete in this step
CompletingSpotCalls ==
    {i \in 1..Len(spotCalls) : spotCalls[i].pc # "done" /\ spotCalls'[i].pc = "done"}

\* |a - b| >= 0.01
DiffersByCent(a, b) ==
    LET diff == NumSub(a, b) IN Abs(diff.n) * 100 >= diff.d

\* what a completed cycle adds to each flash key when its payload is compared
\* with the record stored before it
DomesticFlash(payload, stored) ==
    IF stored # NoSpotRecord
       /\ DiffersByCent(payload.domesticKrwPerGram, stored.domesticKrwPerGram)
    THEN 1 ELSE 0

GlobalFlash(payload, stored) ==
    IF stored # NoSpotRecord
       /\ DiffersByCent(globalKrwPerGram(payload), globalKrwPerGram(stored))
    THEN 1 ELSE 0

\* the stored record is null until a cycle has completed and is afterwards
\* the payload of a completed cycle, the one that is displayed
C11_StoredByCompletedCycle ==
    /\ prevSpotRef = spot
    /\ prevSpotRef = NoSpotRecord
        <=> \A i \in 1..Len(spotCalls) : spotCalls[i].pc # "done"
    /\ prevSpotRef # NoSpotRecord
        => \E i \in 1..Len(spotCalls) :
            spotCalls[i].pc = "done" /\ spotCalls[i].payload = prevSpotRef

\* a step that completes no cycle, a failing one included, leaves the stored
\* record and the flash keys as they are; a step that completes a cycle
\* completes one cycle, compares its payload with the record stored before
\* the step and stores its payload
C11_OneUpdatePerCompletedCycle ==
    IF CompletingSpotCalls = {}
    THEN UNCHANGED <<prevSpotRef, domesticFlashKey, globalFlashKey>>
    ELSE \E i \in CompletingSpotCalls :
            /\ CompletingSpotCalls = {i}
            /\ prevSpotRef' = spotCalls'[i].payload
            /\ domesticFlashKey'
                = domesticFlashKey + DomesticFlash(spotCalls'[i].payload, prevSpotRef)
            /\ globalFlashKey'
                = globalFlashKey + GlobalFlash(spotCalls'[i].payload, prevSpotRef)

\* C11: the previous record is read, compared and overwritten in one step,
\* once per completed fetchSpot cycle and never by a failed one, so that
\* every completed cycle compares its payload with the payload stored by the
\* cycle that completed just before it, however the cycles overlap.
C11_AtomicPreviousRecord ==
    [](C11_StoredByCompletedCycle) /\ [][C11_OneUpdatePerCompletedCycle]_vars

\* the second and third cycles have completed while the first is still
\* awaiting its response, and one comparison has raised the domestic flash key
C11_Witness ==
    /\ Len(spotCalls) = 3
    /\ spotCalls[1].pc \in {"fetch", "json"}
    /\ spotCalls[2].pc = "done"
    /\ spotCalls[3].pc = "done"
    /\ domesticFlashKey = 1
    /\ globalFlashKey = 0
    /\ prevSpotRef \in {spotCalls[2].payload, spotCalls[3].payload}

(***************************************************************************)
(* Properties of the page's history panel (SpecPast)                       *)
(***************************************************************************)
HistoryInFlight == \E i \in 1..Len(historyCalls) : historyCalls[i].pc \in {"fetch", "json"}

\* C18: once no history request is in flight and the last one made has
\* succeeded, the displayed history is of the selected range; and
\* historyLoading is false only while no history request is in flight.
C18_DisplayedRangeIsSelected ==
    /\ (/\ historyCalls # <<>>
        /\ ~HistoryInFlight
        /\ historyCalls[Len(historyCalls)].pc = "done")
       => history.range = range
    /\ ~historyLoading => ~HistoryInFlight
=============================================================================
